---- MODULE Spec2Model ----
(***************************************************************************)
(* Self-update pipeline of Universal Android Debloater Next Generation     *)
(* (src/src/main.rs): main -> perform_self_update -> get_latest_release -> *)
(* download_with_retries -> extract_binary -> process::exit.               *)
(*                                                                         *)
(* One sequential task.  Every `.await` of the source is a step of the     *)
(* model; the environment (network, file system, archive contents) is      *)
(* chosen with \E at the step that observes it.                            *)
(***************************************************************************)
EXTENDS Integers, Sequences, FiniteSets, TLC

(***************************************************************************)
(* Bounds of the model                                                     *)
(***************************************************************************)
\* `attempts` is a u32 in the source.  The code reads it only through
\* `attempts < max` and `min(attempts - 1, 4)`, which are both constant for
\* attempts >= 5, so the counter is kept exactly up to AttemptsCap and
\* saturates there (the loop itself goes on).
AttemptsCap == 7
\* longest tag_name / version string drawn for the registry response
MaxTagLen == 2
\* longest CARGO_PKG_VERSION drawn
MaxVerLen == 1
\* most body chunks of one asset download
MaxChunks == 2
\* most entries of one archive
MaxEntries == 3

(***************************************************************************)
(* Strings: sequences of byte values, compared the way Rust compares &str  *)
(***************************************************************************)
\* the bytes of 'v', '1' and '2'
TagAlphabet == {118, 49, 50}
VerAlphabet == {49, 50}

StringsOver(alphabet, n) == UNION {[1..k -> alphabet] : k \in 0..n}

\* impl Ord for str: byte-wise lexicographic order, a proper prefix is smaller
RECURSIVE StrLe(_, _)
StrLt(a, b) ==
    /\ a # b
    /\ StrLe(a, b)
StrLe(a, b) ==
    IF a = <<>> THEN TRUE
    ELSE IF b = <<>> THEN FALSE
    ELSE IF Head(a) < Head(b) THEN TRUE
    ELSE IF Head(a) > Head(b) THEN FALSE
    ELSE StrLe(Tail(a), Tail(b))

\* str::trim_start_matches('v'): the pattern is removed repeatedly
RECURSIVE trim_start_matches(_, _)
trim_start_matches(s, c) ==
    IF s # <<>> /\ Head(s) = c THEN trim_start_matches(Tail(s), c) ELSE s

\* a JSON value that is not a string read as a tag above every version
as_str_or_newest(v) == IF v.is_str THEN v.str ELSE <<50, 50>>

\* serde_json Value::as_str().unwrap_or(""): a JSON value that is not a
\* string (or is missing, i.e. Null) reads as the empty string
as_str_or_empty(v) == IF v.is_str THEN v.str ELSE <<>>

JsonStrings == [is_str : {TRUE}, str : StringsOver(TagAlphabet, MaxTagLen)]
JsonNull == [is_str |-> FALSE, str |-> <<>>]
TagNames == JsonStrings \cup {JsonNull}

\* shapes of latest["assets"][0]["browser_download_url"]
AssetShapes == {"missing", "empty", "no_url", "url"}
NoUrl == "none"
AssetUrl == "asset_url"
\* the URL lookup falling back to a default instead of None
browser_download_url_defaulted(shape) == AssetUrl

browser_download_url(shape) == IF shape = "url" THEN AssetUrl ELSE NoUrl

Versions == StringsOver(VerAlphabet, MaxVerLen) \ {<<>>}

(***************************************************************************)
(* The two retry loops                                                     *)
(***************************************************************************)
\* what one `client.get(url).send().await` can produce
Responses == {"success", "too_many_requests", "other_status", "transport_error"}

get_latest_release_max == 5
download_with_retries_max == 5

\* `attempts += 1`
Incr(a) == IF a < AttemptsCap THEN a + 1 ELSE a

\* u32::saturating_sub
saturating_sub(a, b) == IF a >= b THEN a - b ELSE 0

Min(a, b) == IF a <= b THEN a ELSE b

\* get_latest_release's match with the last attempt's transport error retried
\* too (`attempts <= max`)
get_latest_release_match_retries_last(r, a) ==
    IF r = "success" THEN "success"
    ELSE IF r = "too_many_requests" THEN "continue"
    ELSE IF r = "transport_error" /\ a <= get_latest_release_max THEN "continue"
    ELSE IF r = "transport_error" THEN "Download"
    ELSE "RateLimited"

\* get_latest_release's match with every non-success status retried
get_latest_release_match_retries_status(r, a) ==
    IF r = "success" THEN "success"
    ELSE IF r \in {"too_many_requests", "other_status"} THEN "continue"
    ELSE IF r = "transport_error" /\ a < get_latest_release_max THEN "continue"
    ELSE IF r = "transport_error" THEN "Download"
    ELSE "RateLimited"

\* the match of get_latest_release, arms in source order
get_latest_release_match(r, a) ==
    IF r = "success" THEN "success"
    ELSE IF r = "too_many_requests" THEN "continue"
    ELSE IF r = "transport_error" /\ a < get_latest_release_max THEN "continue"
    ELSE IF r = "transport_error" THEN "Download"
    ELSE "RateLimited"

\* download_with_retries's match giving up one attempt early
\* (`attempts < max - 1`)
download_with_retries_match_gives_up_early(r, a) ==
    IF r = "success" THEN "success"
    ELSE IF r = "too_many_requests" THEN "continue"
    ELSE IF r = "transport_error" /\ a < download_with_retries_max - 1 THEN "continue"
    ELSE IF r = "transport_error" THEN "Download"
    ELSE "RateLimited"

\* the match of download_with_retries, arms in source order
download_with_retries_match(r, a) ==
    IF r = "success" THEN "success"
    ELSE IF r = "too_many_requests" THEN "continue"
    ELSE IF r = "transport_error" /\ a < download_with_retries_max THEN "continue"
    ELSE IF r = "transport_error" THEN "Download"
    ELSE "RateLimited"

get_latest_release_backoff_ms(a) ==
    <<1000, 2000, 3000, 5000, 8000>>[Min(saturating_sub(a, 1), 4) + 1]

\* download_with_retries's delay indexed by attempts instead of attempts - 1
download_with_retries_backoff_ms_no_sub(a) ==
    <<1000, 2000, 3000, 5000, 8000>>[Min(a, 4) + 1]

download_with_retries_backoff_ms(a) ==
    <<1000, 2000, 3000, 5000, 8000>>[Min(saturating_sub(a, 1), 4) + 1]

\* the loop of get_latest_release run on the outcomes rs of its attempts,
\* from counter a and the sleeps sl made so far: the number of requests, the
\* sleeps, and how the loop ended ("pending" while rs has not ended it)
RECURSIVE get_latest_release_run(_, _, _)
get_latest_release_run(rs, a, sl) ==
    IF rs = <<>> THEN [requests |-> a, sleeps |-> sl, end |-> "pending"]
    ELSE LET n == Incr(a)
             arm == get_latest_release_match(Head(rs), n)
         IN  IF arm = "continue"
             THEN get_latest_release_run(Tail(rs), n,
                      Append(sl, get_latest_release_backoff_ms(n)))
             ELSE [requests |-> n, sleeps |-> sl, end |-> arm]

\* the loop of download_with_retries, likewise
RECURSIVE download_with_retries_run(_, _, _)
download_with_retries_run(rs, a, sl) ==
    IF rs = <<>> THEN [requests |-> a, sleeps |-> sl, end |-> "pending"]
    ELSE LET n == Incr(a)
             arm == download_with_retries_match(Head(rs), n)
         IN  IF arm = "continue"
             THEN download_with_retries_run(Tail(rs), n,
                      Append(sl, download_with_retries_backoff_ms(n)))
             ELSE [requests |-> n, sleeps |-> sl, end |-> arm]

(***************************************************************************)
(* extract_binary                                                          *)
(***************************************************************************)
\* what reading one entry of the archive stream can produce
EntryKinds == {"corrupt", "bad_path", "no_name", "readme.txt",
               "universal-android-debloater", "uadng-linux-x64"}

\* a name test that accepts every named entry
is_binary_name_loose(e) ==
    e \in {"universal-android-debloater", "uadng-linux-x64", "readme.txt"}

\* name.contains("universal-android-debloater") || name.contains("uadng")
is_binary_name(e) == e \in {"universal-android-debloater", "uadng-linux-x64"}

\* only the entry itself checked: an unreadable path is skipped
is_unreadable_entry_only(e) == e = "corrupt"

\* entry.map_err(..)? and entry.path().map_err(..)? fail on these
is_unreadable(e) == e \in {"corrupt", "bad_path"}

\* the end of the loop reported as an extraction failure
no_match_error_extraction == "Extraction"

\* the error extract_binary returns when the loop ends without a match
no_match_error == "InvalidBinary"

(***************************************************************************)
(* State                                                                   *)
(***************************************************************************)
VARIABLES
    pc,         \* position of the task
    outcome,    \* "none" | "UpToDate" | "Updated" | "Failed"
    err,        \* the UpdateError of a Failed outcome
    current,    \* env!("CARGO_PKG_VERSION")
    latest,     \* the release document returned by get_latest_release
    tag,        \* the version token compared against current
    asset_url,
    temp_file,  \* <temp dir>/uadng-update.tar.gz: "absent", "stale" (left by an
                \* earlier run), "created" (with chunks written) or "removed"
    asset_requested, \* whether a GET of the asset URL was sent
    attempts,   \* the `attempts` local of the retry loop in progress
    responses,  \* history: what each attempt of that retry loop received,
                \* dropped once the caller has moved on after an Ok
    sleeps,     \* history: the delays slept by that retry loop
    archive,    \* the entries of the downloaded archive known so far, in
                \* stream order
    archive_complete, \* whether `archive` is the whole stream
    exhausted,  \* whether the entry iterator of extract_binary returned None
    failed_step, \* the step of extract_binary whose I/O failed: "none", "open",
                \* "entries", "entry", "path" or "unpack"
    inspected,  \* archive entries read by extract_binary
    unpacked,   \* file names written into the executable's directory
    exit_code   \* -1 while the process has not exited

vars == <<pc, outcome, err, current, latest, tag, asset_url, temp_file,
          asset_requested, attempts, responses, sleeps, archive,
          archive_complete, exhausted, failed_step, inspected, unpacked,
          exit_code>>

release_vars == <<latest, tag, asset_url>>
file_vars == <<temp_file, asset_requested>>
retry_vars == <<attempts, responses, sleeps>>
archive_vars == <<archive, archive_complete, exhausted>>
install_vars == <<archive_vars, failed_step, inspected, unpacked, exit_code>>

\* `latest` before get_latest_release returned
NoRelease == [tag_name |-> JsonNull, assets |-> "unset"]

ErrorKinds == {"Timeout", "RateLimited", "Download", "Extraction",
               "InvalidBinary", "Io"}

Init ==
    /\ pc = "start"
    /\ outcome = "none"
    /\ err = "none"
    /\ current \in Versions
    /\ latest = NoRelease
    /\ tag = <<>>
    /\ asset_url = NoUrl
    /\ temp_file \in {[state |-> "absent", chunks |-> 0],
                      [state |-> "stale", chunks |-> 0]}
    /\ asset_requested = FALSE
    /\ attempts = 0
    /\ responses = <<>>
    /\ sleeps = <<>>
    /\ archive = <<>>
    /\ archive_complete = FALSE
    /\ exhausted = FALSE
    /\ failed_step = "none"
    /\ inspected = 0
    /\ unpacked = <<>>
    /\ exit_code = -1

\* `?` / `return Err(e)`: perform_self_update returns Err(e) to main
Fail(e) ==
    /\ pc' = "main"
    /\ outcome' = "Failed"
    /\ err' = e

\* the histories are exact below AttemptsCap entries; from then on the last
\* entry is the latest one
Remember(seq, x) ==
    IF Len(seq) < AttemptsCap THEN Append(seq, x)
    ELSE [seq EXCEPT ![AttemptsCap] = x]

(***************************************************************************)
(* main and perform_self_update                                            *)
(***************************************************************************)
\* main awaits perform_self_update, which calls get_latest_release:
\* Client::builder()...build()? and the locals of the retry loop
get_latest_release_build ==
    /\ pc = "start"
    /\ \E built \in BOOLEAN :
         IF built
         THEN /\ pc' = "resolve_send"
              /\ attempts' = 0
              /\ UNCHANGED <<outcome, err>>
         ELSE /\ Fail("Download")
              /\ UNCHANGED attempts
    /\ UNCHANGED <<current, release_vars, file_vars, responses, sleeps,
                   install_vars>>

\* one iteration of the loop of get_latest_release up to its next await
get_latest_release_send ==
    /\ pc = "resolve_send"
    /\ \E r \in Responses :
         LET a == Incr(attempts)
             arm == get_latest_release_match(r, a)
         IN  /\ attempts' = a
             /\ responses' = Remember(responses, r)
             /\ IF arm = "success"
                THEN pc' = "resolve_json" /\ UNCHANGED <<outcome, err>>
                ELSE IF arm = "continue"
                THEN pc' = "resolve_sleep" /\ UNCHANGED <<outcome, err>>
                ELSE Fail(arm)
    /\ UNCHANGED <<current, release_vars, file_vars, sleeps, install_vars>>

\* tokio::time::sleep(backoff_ms) of get_latest_release
get_latest_release_sleep ==
    /\ pc = "resolve_sleep"
    /\ sleeps' = Remember(sleeps, get_latest_release_backoff_ms(attempts))
    /\ pc' = "resolve_send"
    /\ UNCHANGED <<outcome, err, current, release_vars, file_vars, attempts,
                   responses, install_vars>>

\* r.json().await? : the body of the success response
get_latest_release_json ==
    /\ pc = "resolve_json"
    /\ \/ /\ \E t \in TagNames, s \in AssetShapes :
               latest' = [tag_name |-> t, assets |-> s]
          /\ pc' = "check_version"
          /\ UNCHANGED <<outcome, err>>
       \/ /\ Fail("Download")
          /\ UNCHANGED latest
    /\ UNCHANGED <<current, tag, asset_url, file_vars, retry_vars, install_vars>>

\* str::strip_prefix-like: one leading c removed, if there is one
strip_once(str, c) == IF str # <<>> /\ Head(str) = c THEN Tail(str) ELSE str

\* the tag with a single leading 'v' removed
version_tag_strip_once(release) == strip_once(as_str_or_empty(release.tag_name), 118)

\* tag = latest["tag_name"].as_str().unwrap_or("").trim_start_matches('v')
version_tag(release) == trim_start_matches(as_str_or_empty(release.tag_name), 118)

\* `tag < current`
up_to_date_strict(t, c) == StrLt(t, c)

\* `tag <= current`
up_to_date(t, c) == StrLe(t, c)

check_version ==
    /\ pc = "check_version"
    /\ tag' = version_tag(latest)
    /\ IF up_to_date(tag', current)
       THEN /\ pc' = "main"
            /\ outcome' = "UpToDate"
            /\ UNCHANGED err
       ELSE /\ pc' = "select_asset"
            /\ UNCHANGED <<outcome, err>>
    /\ responses' = <<>>
    /\ sleeps' = <<>>
    /\ UNCHANGED <<current, latest, asset_url, file_vars, attempts,
                   install_vars>>

\* latest["assets"][0]["browser_download_url"].as_str().ok_or(InvalidBinary)?
select_asset ==
    /\ pc = "select_asset"
    /\ IF browser_download_url(latest.assets) = NoUrl
       THEN /\ Fail("InvalidBinary")
            /\ UNCHANGED asset_url
       ELSE /\ asset_url' = browser_download_url(latest.assets)
            /\ pc' = "fetch_build"
            /\ UNCHANGED <<outcome, err>>
    /\ UNCHANGED <<current, latest, tag, file_vars, retry_vars, install_vars>>

(***************************************************************************)
(* download_with_retries                                                   *)
(***************************************************************************)
\* download_with_retries going on with the counter get_latest_release left
download_with_retries_build_keeps_count ==
    /\ pc = "fetch_build"
    /\ \E built \in BOOLEAN :
         IF built
         THEN /\ pc' = "fetch_send"
              /\ responses' = <<>>
              /\ sleeps' = <<>>
              /\ UNCHANGED <<outcome, err, attempts>>
         ELSE /\ Fail("Download")
              /\ UNCHANGED retry_vars
    /\ UNCHANGED <<current, release_vars, file_vars, install_vars>>

\* Client::builder()...build()? and the locals of download_with_retries
download_with_retries_build ==
    /\ pc = "fetch_build"
    /\ \E built \in BOOLEAN :
         IF built
         THEN /\ pc' = "fetch_send"
              /\ attempts' = 0
              /\ responses' = <<>>
              /\ sleeps' = <<>>
              /\ UNCHANGED <<outcome, err>>
         ELSE /\ Fail("Download")
              /\ UNCHANGED retry_vars
    /\ UNCHANGED <<current, release_vars, file_vars, install_vars>>

\* an iteration of download_with_retries that creates the file before it
\* looks at the response
download_with_retries_send_creates_first ==
    /\ pc = "fetch_send"
    /\ \E r \in Responses, created \in BOOLEAN :
         LET a == Incr(attempts)
             arm == download_with_retries_match(r, a)
         IN  /\ attempts' = a
             /\ asset_requested' = TRUE
             /\ responses' = Remember(responses, r)
             /\ IF ~created
                THEN /\ Fail("Io")
                     /\ UNCHANGED temp_file
                ELSE /\ temp_file' = [state |-> "created", chunks |-> 0]
                     /\ IF arm = "success"
                        THEN pc' = "fetch_chunk" /\ UNCHANGED <<outcome, err>>
                        ELSE IF arm = "continue"
                        THEN pc' = "fetch_sleep" /\ UNCHANGED <<outcome, err>>
                        ELSE Fail(arm)
    /\ UNCHANGED <<current, release_vars, sleeps, install_vars>>

\* one iteration of the loop of download_with_retries up to its next await;
\* on a success response File::create(path)? runs before the first chunk
download_with_retries_send ==
    /\ pc = "fetch_send"
    /\ \E r \in Responses, created \in BOOLEAN :
         LET a == Incr(attempts)
             arm == download_with_retries_match(r, a)
         IN  /\ attempts' = a
             /\ asset_requested' = TRUE
             /\ responses' = Remember(responses, r)
             /\ IF arm = "success"
                THEN IF created
                     THEN /\ temp_file' = [state |-> "created", chunks |-> 0]
                          /\ pc' = "fetch_chunk"
                          /\ UNCHANGED <<outcome, err>>
                     ELSE /\ Fail("Io")
                          /\ UNCHANGED temp_file
                ELSE IF arm = "continue"
                THEN /\ pc' = "fetch_sleep"
                     /\ UNCHANGED <<outcome, err, temp_file>>
                ELSE /\ Fail(arm)
                     /\ UNCHANGED temp_file
    /\ UNCHANGED <<current, release_vars, sleeps, install_vars>>

download_with_retries_sleep ==
    /\ pc = "fetch_sleep"
    /\ sleeps' = Remember(sleeps, download_with_retries_backoff_ms(attempts))
    /\ pc' = "fetch_send"
    /\ UNCHANGED <<outcome, err, current, release_vars, file_vars, attempts,
                   responses, install_vars>>

\* the chunk loop with the partial file removed when a chunk fails
download_with_retries_chunk_cleans_up ==
    /\ pc = "fetch_chunk"
    /\ \/ /\ temp_file.chunks < MaxChunks
          /\ \E written \in BOOLEAN :
               IF written
               THEN /\ temp_file' = [temp_file EXCEPT !.chunks = @ + 1]
                    /\ UNCHANGED <<pc, outcome, err>>
               ELSE /\ Fail("Io")
                    /\ temp_file' = [state |-> "removed", chunks |-> 0]
       \/ /\ Fail("Download")
          /\ temp_file' = [state |-> "removed", chunks |-> 0]
       \/ /\ pc' = "install"
          /\ UNCHANGED <<outcome, err, temp_file>>
    /\ UNCHANGED <<current, release_vars, asset_requested, retry_vars,
                   install_vars>>

\* while let Some(chunk) = r.chunk().await? { file.write_all(&chunk)?; }
download_with_retries_chunk ==
    /\ pc = "fetch_chunk"
    /\ \/ /\ temp_file.chunks < MaxChunks
          /\ \E written \in BOOLEAN :
               IF written
               THEN /\ temp_file' = [temp_file EXCEPT !.chunks = @ + 1]
                    /\ UNCHANGED <<pc, outcome, err>>
               ELSE /\ Fail("Io")
                    /\ UNCHANGED temp_file
       \/ /\ Fail("Download")
          /\ UNCHANGED temp_file
       \/ /\ pc' = "install"
          /\ UNCHANGED <<outcome, err, temp_file>>
    /\ UNCHANGED <<current, release_vars, asset_requested, retry_vars,
                   install_vars>>

(***************************************************************************)
(* installation and exit                                                   *)
(***************************************************************************)
\* extract_binary's opening step with a failed open sent back to a fresh
\* download instead of returned
extract_binary_open_refetch ==
    /\ pc = "install"
    /\ \E exe_ok \in BOOLEAN, open_ok \in BOOLEAN, entries_ok \in BOOLEAN :
         IF ~exe_ok
         THEN Fail("Io") /\ UNCHANGED failed_step
         ELSE IF ~open_ok
         THEN /\ pc' = "fetch_build"
              /\ failed_step' = "open"
              /\ UNCHANGED <<outcome, err>>
         ELSE IF ~entries_ok
         THEN Fail("Extraction") /\ failed_step' = "entries"
         ELSE pc' = "extract_entry" /\ UNCHANGED <<outcome, err, failed_step>>
    /\ attempts' = 0
    /\ responses' = <<>>
    /\ sleeps' = <<>>
    /\ UNCHANGED <<current, release_vars, file_vars, archive_vars,
                   inspected, unpacked, exit_code>>

\* std::env::current_exe()?, then in extract_binary File::open(..) and
\* archive.entries(), each with map_err(|_| Extraction)?; the locals of
\* download_with_retries, which has returned, are gone
extract_binary_open ==
    /\ pc = "install"
    /\ \E exe_ok \in BOOLEAN, open_ok \in BOOLEAN, entries_ok \in BOOLEAN :
         IF ~exe_ok
         THEN Fail("Io") /\ UNCHANGED failed_step
         ELSE IF ~open_ok
         THEN Fail("Extraction") /\ failed_step' = "open"
         ELSE IF ~entries_ok
         THEN Fail("Extraction") /\ failed_step' = "entries"
         ELSE pc' = "extract_entry" /\ UNCHANGED <<outcome, err, failed_step>>
    /\ attempts' = 0
    /\ responses' = <<>>
    /\ sleeps' = <<>>
    /\ UNCHANGED <<current, release_vars, file_vars, archive_vars,
                   inspected, unpacked, exit_code>>

\* what the entry iterator can yield next: the next known entry, or, while
\* the rest of the stream is not known, any entry
NextEntries ==
    IF inspected < Len(archive) THEN {archive[inspected + 1]}
    ELSE IF ~archive_complete /\ inspected < MaxEntries THEN EntryKinds
    ELSE {}

\* one iteration of `for entry in archive.entries()`, or the end of the stream
extract_binary_entry ==
    /\ pc = "extract_entry"
    /\ \/ /\ \E e \in NextEntries, unpack_ok \in BOOLEAN :
               /\ archive' = IF inspected < Len(archive) THEN archive
                             ELSE Append(archive, e)
               /\ inspected' = inspected + 1
               /\ IF is_unreadable(e)
                  THEN /\ Fail("Extraction")
                       /\ failed_step' = IF e = "corrupt" THEN "entry" ELSE "path"
                       /\ UNCHANGED unpacked
                  ELSE IF is_binary_name(e)
                  THEN IF unpack_ok
                       THEN /\ unpacked' = Append(unpacked, e)
                            /\ pc' = "remove_temp"
                            /\ UNCHANGED <<outcome, err, failed_step>>
                       ELSE /\ Fail("Extraction")
                            /\ failed_step' = "unpack"
                            /\ UNCHANGED unpacked
                  ELSE UNCHANGED <<pc, outcome, err, failed_step, unpacked>>
          /\ UNCHANGED <<archive_complete, exhausted>>
       \/ /\ inspected = Len(archive)
          /\ archive_complete' = TRUE
          /\ exhausted' = TRUE
          /\ Fail(no_match_error)
          /\ UNCHANGED <<archive, failed_step, inspected, unpacked>>
    /\ UNCHANGED <<current, release_vars, file_vars, retry_vars, exit_code>>

\* the end of perform_self_update returning Ok(()) to main instead of exiting
remove_and_exit_returns ==
    /\ pc = "remove_temp"
    /\ \E removed \in BOOLEAN :
         temp_file' = IF removed THEN [state |-> "removed", chunks |-> 0]
                      ELSE temp_file
    /\ pc' = "main"
    /\ outcome' = "Updated"
    /\ UNCHANGED <<err, current, release_vars, asset_requested, retry_vars,
                   archive_vars, failed_step, inspected, unpacked, exit_code>>

\* fs::remove_file(&temp_path).ok(); process::exit(0)
remove_and_exit ==
    /\ pc = "remove_temp"
    /\ \E removed \in BOOLEAN :
         temp_file' = IF removed THEN [state |-> "removed", chunks |-> 0]
                      ELSE temp_file
    /\ pc' = "exited"
    /\ outcome' = "Updated"
    /\ exit_code' = 0
    /\ UNCHANGED <<err, current, release_vars, asset_requested, retry_vars,
                   archive_vars, failed_step, inspected, unpacked>>

\* main after perform_self_update returned: the application logic
main_continue ==
    /\ pc = "main"
    /\ pc' = "app_done"
    /\ UNCHANGED <<outcome, err, current, release_vars, file_vars, retry_vars,
                   install_vars>>

Next ==
    \/ get_latest_release_build
    \/ get_latest_release_send
    \/ get_latest_release_sleep
    \/ get_latest_release_json
    \/ check_version
    \/ select_asset
    \/ download_with_retries_build
    \/ download_with_retries_send
    \/ download_with_retries_sleep
    \/ download_with_retries_chunk
    \/ extract_binary_open
    \/ extract_binary_entry
    \/ remove_and_exit
    \/ main_continue

Spec == Init /\ [][Next]_vars

\* the single task is always scheduled: whatever step is enabled is taken
FairSpec == Spec /\ WF_vars(Next)

(***************************************************************************)
(* extract_binary on every archive                                         *)
(***************************************************************************)
\* every stream of at most MaxEntries entries
Archives == UNION {[1..k -> EntryKinds] : k \in 0..MaxEntries}

\* perform_self_update about to call extract_binary: download_with_retries
\* has returned Ok on its first attempt for a release tagged 'v' + a newer
\* version, and the downloaded archive is any stream of Archives
InstallInit ==
    /\ pc = "install"
    /\ outcome = "none"
    /\ err = "none"
    /\ current \in Versions
    /\ tag \in {c \in Versions : ~up_to_date(c, current)}
    /\ latest = [tag_name |-> [is_str |-> TRUE, str |-> <<118>> \o tag],
                 assets |-> "url"]
    /\ asset_url = AssetUrl
    /\ temp_file \in [state : {"created"}, chunks : 0..MaxChunks]
    /\ asset_requested = TRUE
    /\ attempts = 1
    /\ responses = <<"success">>
    /\ sleeps = <<>>
    /\ archive \in Archives
    /\ archive_complete = TRUE
    /\ exhausted = FALSE
    /\ failed_step = "none"
    /\ inspected = 0
    /\ unpacked = <<>>
    /\ exit_code = -1

InstallNext ==
    \/ extract_binary_open
    \/ extract_binary_entry
    \/ remove_and_exit
    \/ main_continue

InstallSpec == InstallInit /\ [][InstallNext]_vars

TypeOK ==
    /\ outcome \in {"none", "UpToDate", "Updated", "Failed"}
    /\ err \in ErrorKinds \cup {"none"}
    /\ attempts \in 0..AttemptsCap
    /\ temp_file.chunks \in 0..MaxChunks

(***************************************************************************)
(* Properties of the retry loops                                           *)
(***************************************************************************)
Last(seq) == seq[Len(seq)]
AllAre(seq, k) == \A i \in 1..Len(seq) : seq[i] = k
Terminal == {"UpToDate", "Updated", "Failed"}
SendPcs == {"resolve_send", "fetch_send"}
SleepPcs == {"resolve_sleep", "fetch_sleep"}
\* a success response was accepted and its body is being read
BodyPcs == {"resolve_json", "fetch_chunk"}
\* the retry loop returned Ok to perform_self_update
ReturnedOkPcs == {"check_version", "install"}
FourErrors == <<"transport_error", "transport_error", "transport_error",
                "transport_error">>

\* C1: in both retry loops, when each of the first five attempts received a
\* 429 response, the operation has failed with RateLimited.
C1_AllRateLimitedFails ==
    (Len(responses) >= 5 /\ AllAre(responses, "too_many_requests"))
        => (outcome = "Failed" /\ err = "RateLimited")

\* C2: the attempt counter of a retry loop never exceeds max_attempts = 5,
\* whatever the attempts received.
C2_AttemptsWithinMax ==
    /\ attempts <= get_latest_release_max
    /\ attempts <= download_with_retries_max

\* C3: once started, the update pipeline eventually reaches a terminal
\* outcome (UpToDate, Updated or Failed), for every sequence of responses.
C3_PipelineTerminates == <>(outcome \in Terminal)

\* C4: a transport error on the fifth, final allowed attempt makes the
\* operation fail with the Timeout error kind.
C4_ExhaustedIsTimeout ==
    (Len(responses) = 5 /\ responses[5] = "transport_error")
        => (outcome = "Failed" /\ err = "Timeout")

\* C5: when attempts 1..5 of a retry loop all ended in a transport error, the
\* loop has ended on the fifth attempt with a failure (Timeout or Download):
\* five requests, four sleeps, none after the fifth error.
C5_FifthErrorEndsLoop ==
    (Len(responses) = 5 /\ AllAre(responses, "transport_error"))
        => /\ outcome = "Failed"
           /\ err \in {"Timeout", "Download"}
           /\ attempts = 5
           /\ Len(sleeps) = 4
           /\ pc \in {"main", "app_done"}

C5_Witness ==
    /\ Len(responses) = 5
    /\ AllAre(responses, "transport_error")
    /\ asset_requested
    /\ outcome = "Failed"
    /\ err = "Download"

\* C6 as stated: transport errors on attempts 1..4 and a success response on
\* attempt 5 make the operation return success.
C6_FifthSuccessReturnsOk ==
    (responses = FourErrors \o <<"success">>) => outcome # "Failed"

\* C6 amended: a transport error before the fifth attempt is retried, and
\* after transport errors on attempts 1..4 a success response on attempt 5
\* ends the retries (five requests, four sleeps): the operation reads the
\* body and returns Ok, or fails with the error of reading the body.
C6_FifthSuccessAccepted ==
    /\ (responses # <<>> /\ Len(responses) < 5
            /\ Last(responses) = "transport_error")
        => (outcome = "none" /\ pc \in SendPcs \cup SleepPcs)
    /\ (responses = FourErrors \o <<"success">>)
        => /\ attempts = 5
           /\ Len(sleeps) = 4
           /\ \/ pc \in BodyPcs \cup ReturnedOkPcs
              \/ /\ pc \in {"main", "app_done"}
                 /\ outcome = "Failed"
                 /\ err \in {"Download", "Io"}

C6_Witness ==
    /\ responses = FourErrors \o <<"success">>
    /\ pc = "install"
    /\ temp_file.state = "created"
    /\ outcome = "none"

\* C7: the n-th sleep of a retry loop, the one after attempt n, lasts
\* 1000, 2000, 3000, 5000 ms for n = 1..4 and 8000 ms for every n >= 5.
C7_Delay(n) ==
    CASE n = 1 -> 1000
      [] n = 2 -> 2000
      [] n = 3 -> 3000
      [] n = 4 -> 5000
      [] OTHER -> 8000

C7_BackoffSchedule ==
    /\ \A i \in 1..Len(sleeps) : sleeps[i] = C7_Delay(i)
    /\ (pc \in SendPcs /\ attempts < AttemptsCap) => Len(sleeps) = attempts
    /\ (pc \in SleepPcs /\ attempts < AttemptsCap) => Len(sleeps) = attempts - 1

C7_Witness ==
    /\ pc = "fetch_send"
    /\ attempts = 6
    /\ Len(sleeps) = 6
    /\ sleeps[4] = 5000
    /\ sleeps[5] = 8000
    /\ sleeps[6] = 8000

\* C8: a response whose status is neither success nor 429 ends the loop at
\* once with RateLimited: no sleep and no request follows it.
C8_OtherStatusIsFatal ==
    (responses # <<>> /\ Last(responses) = "other_status")
        => /\ outcome = "Failed"
           /\ err = "RateLimited"
           /\ pc \in {"main", "app_done"}
           /\ attempts < AttemptsCap
                => (Len(responses) = attempts /\ Len(sleeps) = attempts - 1)

C8_Witness ==
    /\ Len(responses) = 3
    /\ Last(responses) = "other_status"
    /\ asset_requested
    /\ outcome = "Failed"
    /\ err = "RateLimited"

(***************************************************************************)
(* Properties of the version check                                         *)
(***************************************************************************)
\* get_latest_release returned a release and the comparison was made
VersionChecked == latest # NoRelease /\ pc # "check_version"

\* C9: when the stripped tag is lexicographically <= the running version,
\* the outcome is UpToDate and nothing else was done: no asset request, the
\* temporary file neither created nor removed, nothing extracted, no exit.
C9_UpToDateTakesNoAction ==
    (VersionChecked /\ StrLe(tag, current))
        => /\ outcome = "UpToDate"
           /\ pc \in {"main", "app_done"}
           /\ asset_url = NoUrl
           /\ ~asset_requested
           /\ temp_file.state \in {"absent", "stale"}
           /\ temp_file.chunks = 0
           /\ inspected = 0
           /\ unpacked = <<>>
           /\ exit_code = -1

C9_Witness ==
    /\ pc = "app_done"
    /\ outcome = "UpToDate"
    /\ latest.tag_name.is_str
    /\ latest.tag_name.str = <<118>> \o current
    /\ tag = current
    /\ latest.assets = "url"

\* C10 as stated: the compared token is tag_name with exactly one leading
\* prefix character removed, if present.
C10_OneCharStripped ==
    VersionChecked => tag = strip_once(as_str_or_empty(latest.tag_name), 118)

\* C10 amended: the compared token is tag_name (the empty string when it is
\* not a string) without its whole run of leading 'v' characters, however
\* many there are; the rest is unchanged.
C10_LeadingRunStripped ==
    VersionChecked =>
        LET name == as_str_or_empty(latest.tag_name)
        IN  \E k \in 0..Len(name) :
               /\ \A i \in 1..k : name[i] = 118
               /\ tag = SubSeq(name, k + 1, Len(name))
               /\ (tag = <<>> \/ Head(tag) # 118)

C10_Witness ==
    /\ VersionChecked
    /\ latest.tag_name.is_str
    /\ latest.tag_name.str = <<118, 118>>
    /\ tag = <<>>
    /\ outcome = "UpToDate"

(***************************************************************************)
(* Properties of the asset selection and of the installer                  *)
(***************************************************************************)
\* C11: a newer release whose metadata has no assets array, an empty one or
\* a first asset without a string URL fails with InvalidBinary before any
\* download: no asset request is sent and the temporary file is not created.
C11_NoAssetIsInvalidBinary ==
    (VersionChecked /\ ~StrLe(tag, current) /\ pc # "select_asset"
        /\ latest.assets \in {"missing", "empty", "no_url"})
        => /\ outcome = "Failed"
           /\ err = "InvalidBinary"
           /\ pc \in {"main", "app_done"}
           /\ asset_url = NoUrl
           /\ ~asset_requested
           /\ temp_file.state \in {"absent", "stale"}
           /\ temp_file.chunks = 0
           /\ inspected = 0

C11_Witness ==
    /\ pc = "app_done"
    /\ outcome = "Failed"
    /\ err = "InvalidBinary"
    /\ latest.assets = "empty"
    /\ ~StrLe(tag, current)
    /\ temp_file.state = "absent"

\* the file names that contain "universal-android-debloater" or "uadng"
Recognized(e) == e \in {"universal-android-debloater", "uadng-linux-x64"}

\* C12: the scan follows the stream order and never passes a recognized
\* name; the one file written is the first recognized entry, the installer
\* returns Ok right there, and the entries after it are not read, whether or
\* not they are recognized too.
C12_FirstMatchOnly ==
    /\ inspected <= Len(archive)
    /\ Len(unpacked) <= 1
    /\ \A j \in 1..(inspected - 1) : ~Recognized(archive[j])
    /\ unpacked # <<>>
        => /\ inspected >= 1
           /\ Recognized(archive[inspected])
           /\ unpacked = <<archive[inspected]>>
           /\ pc \in {"remove_temp", "exited"}
           /\ outcome \in {"none", "Updated"}
           /\ ~exhausted

C12_Witness ==
    /\ archive = <<"readme.txt", "uadng-linux-x64",
                   "universal-android-debloater">>
    /\ unpacked = <<"uadng-linux-x64">>
    /\ inspected = 2
    /\ pc = "exited"
    /\ outcome = "Updated"

\* C13: when the entry stream was read to its end without error and no name
\* is recognized, the installer has failed with InvalidBinary and has
\* written nothing.
C13_NoMatchIsInvalidBinary ==
    (exhausted /\ \A i \in 1..Len(archive) : ~Recognized(archive[i]))
        => /\ outcome = "Failed"
           /\ err = "InvalidBinary"
           /\ inspected = Len(archive)
           /\ unpacked = <<>>
           /\ failed_step = "none"
           /\ exit_code = -1

C13_Witness ==
    /\ exhausted
    /\ archive = <<"readme.txt", "no_name", "readme.txt">>
    /\ inspected = 3
    /\ err = "InvalidBinary"
    /\ unpacked = <<>>

\* C14: an I/O or decompression error at any step of the installer gives
\* Extraction, never InvalidBinary or success; an unreadable entry that
\* comes before every recognized one stops the scan there with Extraction,
\* whatever follows it in the archive.
C14_IoErrorIsExtraction ==
    /\ failed_step # "none"
        => /\ outcome = "Failed"
           /\ err = "Extraction"
           /\ pc \in {"main", "app_done"}
           /\ exit_code = -1
           /\ ~exhausted
    /\ \A i \in 1..inspected :
         (archive[i] \in {"corrupt", "bad_path"}
             /\ \A j \in 1..(i - 1) : ~Recognized(archive[j]))
         => /\ inspected = i
            /\ outcome = "Failed"
            /\ err = "Extraction"
            /\ failed_step \in {"entry", "path"}
            /\ unpacked = <<>>

C14_Witness ==
    /\ archive = <<"readme.txt", "bad_path", "uadng-linux-x64">>
    /\ inspected = 2
    /\ failed_step = "path"
    /\ outcome = "Failed"
    /\ err = "Extraction"

(***************************************************************************)
(* Properties of the pipeline as a whole                                   *)
(***************************************************************************)
\* extract_binary was entered
InstallerRan ==
    \/ pc \in {"extract_entry", "remove_temp", "exited"}
    \/ inspected > 0
    \/ failed_step # "none"
    \/ exhausted
    \/ unpacked # <<>>

\* the place of a position in the order of the stages
StageOf(p) ==
    CASE p \in {"start", "resolve_send", "resolve_sleep", "resolve_json"} -> 1
      [] p \in {"check_version", "select_asset"} -> 2
      [] p \in {"fetch_build", "fetch_send", "fetch_sleep", "fetch_chunk"} -> 3
      [] p \in {"install", "extract_entry"} -> 4
      [] p = "remove_temp" -> 5
      [] OTHER -> 6

C15_Order ==
    /\ asset_requested
        => /\ VersionChecked
           /\ ~StrLe(tag, current)
           /\ latest.assets = "url"
           /\ asset_url = AssetUrl
    /\ temp_file.state \in {"created", "removed"} => asset_requested
    /\ InstallerRan
        => /\ temp_file.state \in {"created", "removed"}
           /\ responses = <<>>
    /\ (outcome = "Updated" \/ exit_code = 0 \/ temp_file.state = "removed")
        => /\ pc = "exited"
           /\ outcome = "Updated"
           /\ Len(unpacked) = 1
           /\ failed_step = "none"
    /\ outcome = "Failed" => pc \in {"main", "app_done"}

C15_Stopped ==
    /\ StageOf(pc') >= StageOf(pc)
    /\ outcome = "Failed"
        => UNCHANGED <<outcome, err, current, release_vars, file_vars,
                       retry_vars, install_vars>>

\* C15: the stages run in order and the first failure stops the pipeline:
\* the asset is requested only for a newer release with an asset URL, the
\* installer runs only on a downloaded file, Updated and the exit come only
\* after an unpacked binary; no step goes back to an earlier stage and after
\* a failure nothing but main's own continuation happens.
C15_StagesInOrder == []C15_Order /\ [][C15_Stopped]_vars

C15_Witness ==
    /\ pc = "app_done"
    /\ outcome = "Failed"
    /\ err = "Extraction"
    /\ failed_step = "open"
    /\ temp_file.state = "created"
    /\ exit_code = -1
    /\ unpacked = <<>>

NotUpdated == outcome \in {"Failed", "UpToDate"}

C16_Exit ==
    /\ outcome = "Updated" => pc = "exited" /\ exit_code = 0
    /\ pc = "exited" => outcome = "Updated" /\ exit_code = 0
    /\ NotUpdated => pc \in {"main", "app_done"} /\ exit_code = -1
    /\ pc \in {"main", "app_done"} => NotUpdated

\* C16: a successful update ends the process with exit code 0 and the
\* application logic never runs in it (an exited process takes no further
\* step); after a failure or UpToDate the updater does not exit and main
\* eventually reaches the application logic.
C16_ExitOnlyOnSuccess ==
    /\ []C16_Exit
    /\ [][pc = "exited" => pc' = "exited"]_vars
    /\ NotUpdated ~> (pc = "app_done" /\ exit_code = -1)

C16_Witness ==
    /\ pc = "exited"
    /\ outcome = "Updated"
    /\ exit_code = 0
    /\ Len(unpacked) = 1

C17_Removed ==
    /\ temp_file.state = "removed"
        => /\ outcome = "Updated"
           /\ Len(unpacked) = 1
           /\ failed_step = "none"
    /\ (outcome = "Failed" /\ InstallerRan) => temp_file.state = "created"

C17_Kept ==
    /\ (temp_file.state = "created" /\ outcome' = "Failed")
        => temp_file' = temp_file
    /\ (temp_file.state = "created" /\ temp_file' # temp_file)
        => \/ pc = "fetch_chunk" /\ temp_file' = [temp_file EXCEPT !.chunks = @ + 1]
           \/ pc = "remove_temp" /\ temp_file'.state = "removed"
    /\ pc = "remove_temp" => outcome' = "Updated" /\ exit_code' = 0

\* C17: the temporary archive is removed only after a successful
\* installation, and the outcome is Updated whether or not the removal
\* worked; a failure after the file was created (a failed chunk or any
\* failure of the installer) leaves the file as written so far.
C17_TempFileKeptOnFailure == []C17_Removed /\ [][C17_Kept]_vars

C17_Witness ==
    /\ pc = "app_done"
    /\ outcome = "Failed"
    /\ err = "Download"
    /\ temp_file = [state |-> "created", chunks |-> 1]

Untouched == temp_file.state \in {"absent", "stale"} /\ temp_file.chunks = 0

C18_Before ==
    /\ pc \in {"fetch_build", "fetch_send", "fetch_sleep"} => Untouched
    /\ (/\ outcome = "Failed"
        /\ asset_requested
        /\ responses # <<>>
        /\ Last(responses) # "success")
        => Untouched

C18_Created ==
    Untouched
        => \/ temp_file' = temp_file
           \/ /\ pc = "fetch_send"
              /\ pc' = "fetch_chunk"
              /\ Last(responses') = "success"
              /\ \A i \in 1..Len(responses) :
                    responses[i] \in {"too_many_requests", "transport_error"}
              /\ temp_file' = [state |-> "created", chunks |-> 0]

\* C18: the destination file is created or truncated only when an attempt of
\* the fetcher gets its first success response; through all retried attempts,
\* and when the fetch fails without a success response, the file is exactly
\* what it was before the fetch.
C18_FileOnlyOnSuccess == []C18_Before /\ [][C18_Created]_vars

C18_Witness ==
    /\ outcome = "Failed"
    /\ err = "Download"
    /\ asset_requested
    /\ Len(responses) = download_with_retries_max
    /\ AllAre(responses, "transport_error")
    /\ temp_file = [state |-> "stale", chunks |-> 0]

InResolver == pc \in {"resolve_send", "resolve_sleep", "resolve_json"}
InFetcher == pc \in {"fetch_send", "fetch_sleep", "fetch_chunk"}

\* what the loop whose history `responses` holds does on that history
LoopRun ==
    IF InFetcher \/ asset_requested
    THEN download_with_retries_run(responses, 0, <<>>)
    ELSE get_latest_release_run(responses, 0, <<>>)

C19_SamePolicy ==
    /\ get_latest_release_run(responses, 0, <<>>)
           = download_with_retries_run(responses, 0, <<>>)
    /\ (attempts < AttemptsCap /\ (InResolver \/ InFetcher))
        => /\ LoopRun.requests = attempts
           /\ Len(responses) = attempts
           /\ pc \in SendPcs => LoopRun.end = "pending" /\ LoopRun.sleeps = sleeps
           /\ pc \in SleepPcs
                => /\ LoopRun.end = "pending"
                   /\ LoopRun.sleeps
                          = Append(sleeps, download_with_retries_backoff_ms(attempts))
           /\ pc \in BodyPcs => LoopRun.end = "success" /\ LoopRun.sleeps = sleeps
    /\ (/\ outcome = "Failed"
        /\ attempts < AttemptsCap
        /\ responses # <<>>
        /\ Last(responses) # "success")
        => /\ LoopRun.end = err
           /\ LoopRun.requests = attempts
           /\ LoopRun.sleeps = sleeps

C19_FreshCounter ==
    (pc = "fetch_build" /\ pc' = "fetch_send")
        => attempts' = 0 /\ responses' = <<>> /\ sleeps' = <<>>

\* C19: get_latest_release and download_with_retries classify alike and
\* count apart: on the same outcomes of their attempts the two loops make
\* the same number of requests and the same sleeps and end the same way,
\* each loop of the program does what that common run says, and
\* download_with_retries starts at 0 whatever get_latest_release counted.
C19_LoopsAgree == []C19_SamePolicy /\ [][C19_FreshCounter]_vars

C19_Witness ==
    /\ outcome = "Failed"
    /\ asset_requested
    /\ err = "Download"
    /\ attempts = download_with_retries_max
    /\ AllAre(responses, "transport_error")
    /\ sleeps = <<1000, 2000, 3000, 5000>>
    /\ get_latest_release_run(responses, 0, <<>>)
           = [requests |-> 5, sleeps |-> sleeps, end |-> "Download"]

\* C20: when get_latest_release returned a release whose tag_name is missing
\* or not a string, the tag is the empty string and, whatever the running
\* version, the outcome is UpToDate: no asset is looked up or requested, the
\* temporary file is untouched and no error is reported.
C20_NoTagIsUpToDate ==
    (VersionChecked /\ ~latest.tag_name.is_str)
        => /\ tag = <<>>
           /\ \A c \in Versions : up_to_date(tag, c)
           /\ outcome = "UpToDate"
           /\ err = "none"
           /\ pc \in {"main", "app_done"}
           /\ asset_url = NoUrl
           /\ ~asset_requested
           /\ Untouched
           /\ exit_code = -1

C20_Witness ==
    /\ pc = "app_done"
    /\ latest = [tag_name |-> JsonNull, assets |-> "url"]
    /\ tag = <<>>
    /\ outcome = "UpToDate"
    /\ ~asset_requested

====
